---- MODULE Spec2Model ----
(***************************************************************************)
(* Admission webhook of main.go: handleAdmissionReview served by net/http  *)
(* on /validate.  Every in-flight request is one invocation of the         *)
(* handler with its own locals; the steps of the handler are the actions.  *)
(* The process-wide log sink is write-only for the handler and is kept     *)
(* only as the per-invocation totals lines (main.go:88-89).                *)
(***************************************************************************)
EXTENDS Integers, Sequences, FiniteSets, TLC

VARIABLES
    pc,                      \* position of each invocation in handleAdmissionReview
    call,                    \* the (w, r) an invocation was called with
    admissionReviewRequest,  \* local of main.go:54
    err,                     \* local err of main.go:54 / 64
    pod,                     \* local of main.go:63
    idx,                     \* position of the range loop of main.go:74
    totalCPU, totalMemory,   \* locals of main.go:73
    admissionResponse,       \* local of main.go:92
    w,                       \* what the invocation did to its ResponseWriter
    logged,                  \* the totals lines the invocation logged (main.go:88-89)
    history,                 \* the finished calls and their outcomes, in order
    accepted                 \* number of requests dispatched so far

vars == <<pc, call, admissionReviewRequest, err, pod, idx, totalCPU, totalMemory,
          admissionResponse, w, logged, history, accepted>>

(***************************************************************************)
(* Bounds                                                                  *)
(***************************************************************************)
MaxContainers == 2     \* containers per Pod in the request bodies
MaxInFlight == 2       \* concurrent invocations the server runs
MaxAccepted == 3       \* requests dispatched in one behaviour of the server

Invocations == 1..MaxInFlight

(***************************************************************************)
(* net/http status codes                                                   *)
(***************************************************************************)
StatusOK == 200
StatusBadRequest == 400
StatusInternalServerError == 500

Nil == [isNil |-> TRUE]

(***************************************************************************)
(* resource.Quantity: an exact amount value * 10^scale with a Format.      *)
(* Quantity strings are <<number, suffix>>, e.g. <<500, "m">> for "500m".  *)
(***************************************************************************)
RECURSIVE Pow(_, _)
Pow(b, n) == IF n <= 0 THEN 1 ELSE b * Pow(b, n - 1)

DecimalSuffixScale == [m |-> -3, k |-> 3, M |-> 6, G |-> 9]
BinarySuffixExp == [Ki |-> 1, Mi |-> 2, Gi |-> 3]

\* resource.ParseQuantity, as json.Unmarshal calls it for every Requests entry
ParseQuantity(s) ==
    LET n == s[1]
        suffix == s[2]
    IN  IF suffix = ""
        THEN [err |-> FALSE, q |-> [value |-> n, scale |-> 0, Format |-> "DecimalSI"]]
        ELSE IF suffix \in DOMAIN DecimalSuffixScale
        THEN [err |-> FALSE,
              q |-> [value |-> n, scale |-> DecimalSuffixScale[suffix],
                     Format |-> "DecimalSI"]]
        ELSE IF suffix \in DOMAIN BinarySuffixExp
        THEN [err |-> FALSE,
              q |-> [value |-> n * Pow(1024, BinarySuffixExp[suffix]), scale |-> 0,
                     Format |-> "BinarySI"]]
        ELSE [err |-> TRUE, q |-> [value |-> 0, scale |-> 0, Format |-> ""]]

\* var totalMemory, totalCPU resource.Quantity (main.go:73): the zero Quantity
ZeroQuantity == [value |-> 0, scale |-> 0, Format |-> ""]

\* Quantity.Add (main.go:78, 83): int64Amount.Add / inf.Dec addition, exact
QuantityAdd(q, y) ==
    LET fmt == IF q.value = 0 THEN y.Format ELSE q.Format
    IN  IF y.value = 0 THEN [q EXCEPT !.Format = fmt]
        ELSE IF q.value = 0
        THEN [value |-> y.value, scale |-> y.scale, Format |-> fmt]
        ELSE IF q.scale = y.scale
        THEN [value |-> q.value + y.value, scale |-> q.scale, Format |-> fmt]
        ELSE IF q.scale > y.scale
        THEN [value |-> q.value * Pow(10, q.scale - y.scale) + y.value,
              scale |-> y.scale, Format |-> fmt]
        ELSE [value |-> q.value + y.value * Pow(10, y.scale - q.scale),
              scale |-> q.scale, Format |-> fmt]

RECURSIVE RemoveFactors(_, _)
\* removeInt64Factors: <<v / base^times, times>> with times maximal
RemoveFactors(v, base) ==
    IF v # 0 /\ v % base = 0
    THEN LET r == RemoveFactors(v \div base, base) IN <<r[1], r[2] + 1>>
    ELSE <<v, 0>>

DecimalSuffixOf(e) ==
    IF e = -3 THEN "m" ELSE IF e = 0 THEN "" ELSE IF e = 3 THEN "k"
    ELSE IF e = 6 THEN "M" ELSE IF e = 9 THEN "G" ELSE "e?"

BinarySuffixOf(e) ==
    IF e = 0 THEN "" ELSE IF e = 1 THEN "Ki" ELSE IF e = 2 THEN "Mi"
    ELSE IF e = 3 THEN "Gi" ELSE "?i"

\* Quantity.String of a total (main.go:88-89): the canonical form
QuantityString(q) ==
    LET exact0 == q.scale >= 0 \/ q.value % Pow(10, 0 - q.scale) = 0
        v0 == IF q.scale >= 0 THEN q.value * Pow(10, q.scale)
              ELSE q.value \div Pow(10, 0 - q.scale)
        binary == q.Format = "BinarySI" /\ exact0 /\ v0 >= 1024
    IN  IF q.value = 0 THEN <<0, "">>
        ELSE IF binary
        THEN LET r == RemoveFactors(v0, 1024) IN <<r[1], BinarySuffixOf(r[2])>>
        ELSE LET r == RemoveFactors(q.value, 10)
                 e == q.scale + r[2]
             IN  IF e % 3 = 1 THEN <<r[1] * 10, DecimalSuffixOf(e - 1)>>
                 ELSE IF e % 3 = 2 THEN <<r[1] * 100, DecimalSuffixOf(e - 2)>>
                 ELSE <<r[1], DecimalSuffixOf(e)>>

(***************************************************************************)
(* Request bodies.  A body is what io.ReadAll and json.Unmarshal make of   *)
(* it: unreadable, not JSON, JSON of the wrong shape, or a JSON object     *)
(* with optional "request".  Request.Object.Raw is absent, a JSON value    *)
(* that is no Pod, or a Pod document whose containers carry the Requests   *)
(* entries as quantity strings.                                            *)
(***************************************************************************)
ResourceCPU == "cpu"
ResourceMemory == "memory"

CPUStrings == {<<500, "m">>, <<1, "">>, <<1, "x">>}
MemoryStrings == {<<128, "Mi">>, <<256, "Mi">>}
NoEntry == <<>>

\* the Requests map of one container document
RequestsDoc(c, m) ==
    [x \in (IF c = NoEntry THEN {} ELSE {ResourceCPU})
            \cup (IF m = NoEntry THEN {} ELSE {ResourceMemory})
       |-> IF x = ResourceCPU THEN c ELSE m]

ContainerDocs ==
    {[requests |-> RequestsDoc(c, m)] :
        c \in CPUStrings \cup {NoEntry}, m \in MemoryStrings \cup {NoEntry}}

PodDocs == UNION {[1..n -> ContainerDocs] : n \in 0..MaxContainers}

AbsentObject == [shape |-> "absent", containers |-> <<>>]
NotPodObject == [shape |-> "notpod", containers |-> <<>>]
PodObject(cs) == [shape |-> "pod", containers |-> cs]

Objects == {AbsentObject, NotPodObject} \cup {PodObject(cs) : cs \in PodDocs}

UIDs == {"", "705ab4f5"}
Kinds == {"Pod", "Deployment", ""}
APIVersions == {"admission.k8s.io/v1", "admission.k8s.io/v1beta1"}

BrokenBody(shape) ==
    [shape |-> shape, apiVersion |-> "", hasRequest |-> FALSE, uid |-> "",
     kind |-> "", object |-> AbsentObject]

ReviewBody(v, u, k, o) ==
    [shape |-> "json", apiVersion |-> v, hasRequest |-> TRUE, uid |-> u,
     kind |-> k, object |-> o]

NoRequestBody(v) ==
    [shape |-> "json", apiVersion |-> v, hasRequest |-> FALSE, uid |-> "",
     kind |-> "", object |-> AbsentObject]

Bodies ==
    {BrokenBody(s) : s \in {"unreadable", "notjson", "mismatch"}}
    \cup {NoRequestBody(v) : v \in APIVersions}
    \cup {ReviewBody(v, u, k, o) :
            v \in APIVersions, u \in UIDs, k \in Kinds, o \in Objects}

\* (r, w) of one call of the handler: the body, and whether w.Write succeeds
Inputs == {[body |-> b, writeOk |-> ok] : b \in Bodies, ok \in BOOLEAN}

TwoContainers ==
    <<[requests |-> RequestsDoc(<<500, "m">>, <<128, "Mi">>)],
      [requests |-> RequestsDoc(<<500, "m">>, <<256, "Mi">>)]>>
OneBareContainer == <<[requests |-> RequestsDoc(NoEntry, NoEntry)]>>

\* the requests the concurrent server is driven with
ServerInputs ==
    {[body |-> b, writeOk |-> TRUE] :
        b \in {BrokenBody("notjson"),
               NoRequestBody("admission.k8s.io/v1"),
               ReviewBody("admission.k8s.io/v1", "705ab4f5", "Deployment",
                          PodObject(OneBareContainer)),
               ReviewBody("admission.k8s.io/v1", "705ab4f5", "Pod", NotPodObject),
               ReviewBody("admission.k8s.io/v1", "705ab4f5", "Pod",
                          PodObject(OneBareContainer)),
               ReviewBody("admission.k8s.io/v1", "9c1e77aa", "Pod",
                          PodObject(<<[requests |-> RequestsDoc(<<500, "m">>, <<128, "Mi">>)]>>))}}
    \cup {[body |-> ReviewBody("admission.k8s.io/v1", "9c1e77aa", "Pod",
                               PodObject(OneBareContainer)),
           writeOk |-> FALSE]}

(***************************************************************************)
(* Decoding                                                                *)
(***************************************************************************)
NoError == <<>>

\* parseAdmissionReview (main.go:33-48): (nil, err) or (review, nil)
parseAdmissionReview(body) ==
    IF body.shape = "unreadable"
    THEN [review |-> Nil, err |-> <<"read error">>]
    ELSE IF body.shape \in {"notjson", "mismatch"}
    THEN [review |-> Nil, err |-> <<"json: cannot unmarshal body">>]
    ELSE [review |->
            [TypeMeta |-> [apiVersion |-> body.apiVersion, kind |-> "AdmissionReview"],
             Request |-> IF body.hasRequest
                         THEN [UID |-> body.uid, Kind |-> body.kind,
                               Object |-> body.object]
                         ELSE Nil,
             Response |-> Nil],
          err |-> NoError]

EmptyPod == [Containers |-> <<>>]

\* json.Unmarshal(Request.Object.Raw, &pod) (main.go:63-64)
UnmarshalPod(raw) ==
    IF raw.shape = "absent"
    THEN [pod |-> EmptyPod, err |-> <<"unexpected end of JSON input">>]
    ELSE IF raw.shape # "pod"
    THEN [pod |-> EmptyPod, err |-> <<"json: cannot unmarshal into corev1.Pod">>]
    ELSE IF \E i \in 1..Len(raw.containers) :
              \E x \in DOMAIN raw.containers[i].requests :
                 ParseQuantity(raw.containers[i].requests[x]).err
    THEN [pod |-> EmptyPod, err |-> <<"quantities must match the regular expression">>]
    ELSE [pod |->
            [Containers |->
               [i \in 1..Len(raw.containers) |->
                  [Requests |->
                     [x \in DOMAIN raw.containers[i].requests |->
                        ParseQuantity(raw.containers[i].requests[x]).q]]]],
          err |-> NoError]

(***************************************************************************)
(* http.ResponseWriter: the header sent and the Write calls, in order.     *)
(***************************************************************************)
NewWriter == [wroteHeader |-> FALSE, status |-> 0, contentType |-> "", body |-> <<>>]

TextChunk(text) == [text |-> text, json |-> Nil]
JSONChunk(doc) == [text |-> <<>>, json |-> doc]

\* w.WriteHeader: the first status wins
WriteHeader(wr, code) ==
    IF wr.wroteHeader THEN wr ELSE [wr EXCEPT !.wroteHeader = TRUE, !.status = code]

\* w.Write: sends 200 when no header was sent yet
Write(wr, chunk) ==
    LET h == WriteHeader(wr, StatusOK) IN [h EXCEPT !.body = Append(@, chunk)]

\* httpError (main.go:26-30)
httpError(wr, e) == Write(WriteHeader(wr, StatusBadRequest), TextChunk(e))

\* http.Error(w, "could not encode response", 500) (main.go:105)
EncodeFailed(wr) ==
    Write(WriteHeader([wr EXCEPT !.contentType = "text/plain"], StatusInternalServerError),
          TextChunk(<<"could not encode response">>))

\* the JSON document json.Encoder makes of an AdmissionReview: empty
\* apiVersion and kind are omitted (omitempty), shown here as ""
EncodeJSON(review) ==
    [apiVersion |-> review.TypeMeta.apiVersion, kind |-> review.TypeMeta.kind,
     response |-> IF review.Response = Nil THEN Nil
                  ELSE [uid |-> review.Response.UID,
                        allowed |-> review.Response.Allowed]]

(***************************************************************************)
(* The pieces of handleAdmissionReview                                     *)
(***************************************************************************)
IsPodKind_Any(k) == TRUE

\* admissionReviewRequest.Request.Kind.Kind != "Pod" (main.go:57), negated
IsPodKind(k) == k = "Pod"

KindError(k) == <<"expected request for kind Pod but got ", k>>

PodDecodeFails_Ignored(res) == FALSE

\* if err != nil (main.go:65)
PodDecodeFails(res) == res.err # NoError

AddRequest_Overwrite(total, container, name) ==
    IF name \in DOMAIN container.Requests
    THEN container.Requests[name]
    ELSE total

\* if q, ok := container.Resources.Requests[name]; ok { total.Add(q) }
\* (main.go:76-79, 81-84)
AddRequest(total, container, name) ==
    IF name \in DOMAIN container.Requests
    THEN QuantityAdd(total, container.Requests[name])
    ELSE total

ResponseUID_Blank(review) == ""

\* UID: admissionReviewRequest.Request.UID (main.go:93)
ResponseUID(review) == review.Request.UID

AllowedDecision_Ceiling(cpu, memory) == memory.value <= 256 * 1024 * 1024

\* Allowed: true (main.go:94)
AllowedDecision(cpu, memory) == TRUE

\* admissionv1.AdmissionReview{Response: admissionResponse} (main.go:98-100)
ResponseReview(resp) ==
    [TypeMeta |-> [apiVersion |-> "", kind |-> ""], Request |-> Nil, Response |-> resp]

NoResponse == [UID |-> "", Allowed |-> FALSE, built |-> FALSE]
NoTotals == <<>>
NoCall == [body |-> BrokenBody("none"), writeOk |-> TRUE]

Terminal == {"done", "panicked"}

(***************************************************************************)
(* Initial state: the server listens, no request is in flight.             *)
(***************************************************************************)
Init ==
    /\ pc = [r \in Invocations |-> "idle"]
    /\ call = [r \in Invocations |-> NoCall]
    /\ admissionReviewRequest = [r \in Invocations |-> Nil]
    /\ err = [r \in Invocations |-> NoError]
    /\ pod = [r \in Invocations |-> EmptyPod]
    /\ idx = [r \in Invocations |-> 0]
    /\ totalCPU = [r \in Invocations |-> ZeroQuantity]
    /\ totalMemory = [r \in Invocations |-> ZeroQuantity]
    /\ admissionResponse = [r \in Invocations |-> NoResponse]
    /\ w = [r \in Invocations |-> NewWriter]
    /\ logged = [r \in Invocations |-> NoTotals]
    /\ history = <<>>
    /\ accepted = 0

\* http.ListenAndServe dispatches a request to a fresh call of the handler
\* (main.go:140-142)
Dispatch(r, inputs, limit) ==
    /\ pc[r] = "idle"
    /\ accepted < limit
    /\ \E i \in inputs : call' = [call EXCEPT ![r] = i]
    /\ pc' = [pc EXCEPT ![r] = "parse"]
    /\ accepted' = accepted + 1
    /\ UNCHANGED <<admissionReviewRequest, err, pod, idx, totalCPU, totalMemory,
                   admissionResponse, w, logged, history>>

\* admissionReviewRequest, err := parseAdmissionReview(r) (main.go:54)
Parse(r) ==
    /\ pc[r] = "parse"
    /\ LET p == parseAdmissionReview(call[r].body)
       IN  /\ admissionReviewRequest' = [admissionReviewRequest EXCEPT ![r] = p.review]
           /\ err' = [err EXCEPT ![r] = p.err]
    /\ pc' = [pc EXCEPT ![r] = "kind"]
    /\ UNCHANGED <<call, pod, idx, totalCPU, totalMemory, admissionResponse, w, logged,
                   history, accepted>>

\* main.go:57-60.  err is not looked at: a nil review, or a review without
\* Request, is dereferenced and the goroutine panics before anything is written.
KindCheck(r) ==
    /\ pc[r] = "kind"
    /\ LET rev == admissionReviewRequest[r]
       IN  IF rev = Nil
           THEN pc' = [pc EXCEPT ![r] = "panicked"] /\ w' = w
           ELSE IF rev.Request = Nil
           THEN pc' = [pc EXCEPT ![r] = "panicked"] /\ w' = w
           ELSE IF ~IsPodKind(rev.Request.Kind)
           THEN /\ w' = [w EXCEPT ![r] = httpError(@, KindError(rev.Request.Kind))]
                /\ pc' = [pc EXCEPT ![r] = "done"]
           ELSE pc' = [pc EXCEPT ![r] = "decode"] /\ w' = w
    /\ UNCHANGED <<call, admissionReviewRequest, err, pod, idx, totalCPU, totalMemory,
                   admissionResponse, logged, history, accepted>>

\* main.go:63-73
DecodePod(r) ==
    /\ pc[r] = "decode"
    /\ LET res == UnmarshalPod(admissionReviewRequest[r].Request.Object)
       IN  /\ pod' = [pod EXCEPT ![r] = res.pod]
           /\ err' = [err EXCEPT ![r] = res.err]
           /\ IF PodDecodeFails(res)
              THEN /\ w' = [w EXCEPT ![r] = httpError(@, res.err)]
                   /\ pc' = [pc EXCEPT ![r] = "done"]
                   /\ UNCHANGED <<idx, totalCPU, totalMemory>>
              ELSE /\ pc' = [pc EXCEPT ![r] = "aggregate"]
                   /\ idx' = [idx EXCEPT ![r] = 1]
                   /\ totalCPU' = [totalCPU EXCEPT ![r] = ZeroQuantity]
                   /\ totalMemory' = [totalMemory EXCEPT ![r] = ZeroQuantity]
                   /\ w' = w
    /\ UNCHANGED <<call, admissionReviewRequest, admissionResponse, logged, history,
                   accepted>>

\* one turn of the range loop (main.go:74-85), or leaving it and logging the
\* totals (main.go:88-89)
Aggregate(r) ==
    /\ pc[r] = "aggregate"
    /\ IF idx[r] <= Len(pod[r].Containers)
       THEN LET container == pod[r].Containers[idx[r]]
            IN  /\ totalCPU' = [totalCPU EXCEPT ![r] = AddRequest(@, container, ResourceCPU)]
                /\ totalMemory' =
                       [totalMemory EXCEPT ![r] = AddRequest(@, container, ResourceMemory)]
                /\ idx' = [idx EXCEPT ![r] = @ + 1]
                /\ UNCHANGED <<pc, logged>>
       ELSE /\ logged' = [logged EXCEPT ![r] =
                             <<QuantityString(totalMemory[r]), QuantityString(totalCPU[r])>>]
            /\ pc' = [pc EXCEPT ![r] = "decide"]
            /\ UNCHANGED <<idx, totalCPU, totalMemory>>
    /\ UNCHANGED <<call, admissionReviewRequest, err, pod, admissionResponse, w, history,
                   accepted>>

Decide_Shared(r) ==
    /\ pc[r] = "decide"
    /\ \E q \in Invocations :
          /\ admissionReviewRequest[q] # Nil
          /\ admissionReviewRequest[q].Request # Nil
          /\ admissionResponse' = [admissionResponse EXCEPT ![r] =
                 [UID |-> ResponseUID(admissionReviewRequest[q]),
                  Allowed |-> AllowedDecision(totalCPU[q], totalMemory[q]),
                  built |-> TRUE]]
    /\ pc' = [pc EXCEPT ![r] = "encode"]
    /\ UNCHANGED <<call, admissionReviewRequest, err, pod, idx, totalCPU, totalMemory, w,
                   logged, history, accepted>>

Decide_Stateful(r) ==
    /\ pc[r] = "decide"
    /\ admissionResponse' = [admissionResponse EXCEPT ![r] =
           [UID |-> ResponseUID(admissionReviewRequest[r]),
            Allowed |-> history = <<>>,
            built |-> TRUE]]
    /\ pc' = [pc EXCEPT ![r] = "encode"]
    /\ UNCHANGED <<call, admissionReviewRequest, err, pod, idx, totalCPU, totalMemory, w,
                   logged, history, accepted>>

\* main.go:92-95
Decide(r) ==
    /\ pc[r] = "decide"
    /\ admissionResponse' = [admissionResponse EXCEPT ![r] =
           [UID |-> ResponseUID(admissionReviewRequest[r]),
            Allowed |-> AllowedDecision(totalCPU[r], totalMemory[r]),
            built |-> TRUE]]
    /\ pc' = [pc EXCEPT ![r] = "encode"]
    /\ UNCHANGED <<call, admissionReviewRequest, err, pod, idx, totalCPU, totalMemory, w,
                   logged, history, accepted>>

\* main.go:98-106: the envelope is built and handed to json.Encoder; when the
\* Write fails, http.Error follows on the same writer
Encode(r) ==
    /\ pc[r] = "encode"
    /\ LET admissionReviewResponse == ResponseReview(admissionResponse[r])
           set == [w[r] EXCEPT !.contentType = "application/json"]
           sent == Write(set, JSONChunk(EncodeJSON(admissionReviewResponse)))
       IN  w' = [w EXCEPT ![r] = IF call[r].writeOk THEN sent ELSE EncodeFailed(sent)]
    /\ pc' = [pc EXCEPT ![r] = "done"]
    /\ UNCHANGED <<call, admissionReviewRequest, err, pod, idx, totalCPU, totalMemory,
                   admissionResponse, logged, history, accepted>>

\* what the API server sees of a finished invocation
Outcome(r) == [end |-> pc[r], w |-> w[r], logged |-> logged[r]]

\* the handler has returned (or net/http has recovered its panic and closed the
\* connection): the invocation's locals are gone
Finish(r) ==
    /\ pc[r] \in Terminal
    /\ history' = Append(history, [call |-> call[r], outcome |-> Outcome(r)])
    /\ pc' = [pc EXCEPT ![r] = "idle"]
    /\ call' = [call EXCEPT ![r] = NoCall]
    /\ admissionReviewRequest' = [admissionReviewRequest EXCEPT ![r] = Nil]
    /\ err' = [err EXCEPT ![r] = NoError]
    /\ pod' = [pod EXCEPT ![r] = EmptyPod]
    /\ idx' = [idx EXCEPT ![r] = 0]
    /\ totalCPU' = [totalCPU EXCEPT ![r] = ZeroQuantity]
    /\ totalMemory' = [totalMemory EXCEPT ![r] = ZeroQuantity]
    /\ admissionResponse' = [admissionResponse EXCEPT ![r] = NoResponse]
    /\ w' = [w EXCEPT ![r] = NewWriter]
    /\ logged' = [logged EXCEPT ![r] = NoTotals]
    /\ UNCHANGED accepted

Step(r) ==
    \/ Parse(r)
    \/ KindCheck(r)
    \/ DecodePod(r)
    \/ Aggregate(r)
    \/ Decide(r)
    \/ Encode(r)

\* one call of the handler, over every request body
Next == Dispatch(1, Inputs, 1) \/ Step(1)

Spec == Init /\ [][Next]_vars

\* the server: several calls in flight, one after another on each goroutine slot
ServerNext ==
    \E r \in Invocations : Dispatch(r, ServerInputs, MaxAccepted) \/ Step(r) \/ Finish(r)

ServerSpec == Init /\ [][ServerNext]_vars

(***************************************************************************)
(* handleAdmissionReview as one function of its call: what a call does     *)
(* when nothing else runs.                                                 *)
(***************************************************************************)
RECURSIVE TotalOf(_, _, _)
TotalOf(containers, name, n) ==
    IF n = 0 THEN ZeroQuantity
    ELSE AddRequest(TotalOf(containers, name, n - 1), containers[n], name)

HandleAlone(c) ==
    LET p == parseAdmissionReview(c.body)
        panic == [end |-> "panicked", w |-> NewWriter, logged |-> NoTotals]
    IN  IF p.review = Nil THEN panic
        ELSE IF p.review.Request = Nil THEN panic
        ELSE IF ~IsPodKind(p.review.Request.Kind)
        THEN [end |-> "done", w |-> httpError(NewWriter, KindError(p.review.Request.Kind)),
              logged |-> NoTotals]
        ELSE LET res == UnmarshalPod(p.review.Request.Object)
             IN  IF PodDecodeFails(res)
                 THEN [end |-> "done", w |-> httpError(NewWriter, res.err),
                       logged |-> NoTotals]
                 ELSE LET cs == res.pod.Containers
                          cpu == TotalOf(cs, ResourceCPU, Len(cs))
                          mem == TotalOf(cs, ResourceMemory, Len(cs))
                          resp == [UID |-> ResponseUID(p.review),
                                   Allowed |-> AllowedDecision(cpu, mem), built |-> TRUE]
                          sent == Write([NewWriter EXCEPT !.contentType = "application/json"],
                                        JSONChunk(EncodeJSON(ResponseReview(resp))))
                      IN  [end |-> "done",
                           w |-> IF c.writeOk THEN sent ELSE EncodeFailed(sent),
                           logged |-> <<QuantityString(mem), QuantityString(cpu)>>]

(***************************************************************************)
(* Observations used by the properties                                     *)
(***************************************************************************)
Body(r) == call[r].body

\* the JSON documents and the plain texts an invocation has written
JSONDocs(wr) == {wr.body[i].json : i \in {j \in 1..Len(wr.body) : wr.body[j].json # Nil}}
Texts(wr) == {wr.body[i].text : i \in {j \in 1..Len(wr.body) : wr.body[j].json = Nil}}

Decoded(r) == pc[r] # "idle" /\ Body(r).shape = "json" /\ Body(r).hasRequest
PodDecodes(r) == UnmarshalPod(Body(r).object).err = NoError
PastKindCheck == {"decode", "aggregate", "decide", "encode"}
PastDecode == {"aggregate", "decide", "encode"}

\* the amount of q in units of 10^s
ValueAt(q, s) == q.value * Pow(10, q.scale - s)

RECURSIVE SumAt(_, _, _, _)
\* the sum, in units of 10^s, of the name entries of the first n containers
SumAt(containers, name, n, s) ==
    IF n = 0 THEN 0
    ELSE SumAt(containers, name, n - 1, s)
         + (IF name \in DOMAIN containers[n].Requests
            THEN ValueAt(containers[n].Requests[name], s) ELSE 0)

\* C1: a Pod request whose object decodes never panics or gets an error, and
\* once handled has written exactly one AdmissionReview whose response.uid is
\* the request's uid; no document written for it ever carries another uid.
C1_UIDEchoed ==
    \A r \in Invocations :
        (Decoded(r) /\ Body(r).kind = "Pod" /\ PodDecodes(r)) =>
            /\ pc[r] # "panicked"
            /\ \A d \in JSONDocs(w[r]) : d.response # Nil /\ d.response.uid = Body(r).uid
            /\ admissionResponse[r].built => admissionResponse[r].UID = Body(r).uid
            /\ pc[r] = "done" => Cardinality(JSONDocs(w[r])) = 1

C1_Witness ==
    /\ pc[1] = "done" /\ Decoded(1) /\ Body(1).kind = "Pod" /\ PodDecodes(1)
    /\ Body(1).uid = "705ab4f5"
    /\ Len(pod[1].Containers) = 2
    /\ call[1].writeOk
    /\ \E d \in JSONDocs(w[1]) : d.response.uid = "705ab4f5"

\* C2: a body that does not decode into an envelope with a request ends in
\* HTTP 400 with one plain-text body and no AdmissionReview document.
C2_UndecodableGets400 ==
    \A r \in Invocations :
        (pc[r] \in Terminal /\ (Body(r).shape # "json" \/ ~Body(r).hasRequest)) =>
            /\ w[r].status = StatusBadRequest
            /\ JSONDocs(w[r]) = {}
            /\ Cardinality(Texts(w[r])) = 1

\* C3: a decoded request of a kind other than Pod is answered 400 with the
\* message naming the kind, and at no point is 200 sent or a document written
\* or the object looked at.
C3_NonPodRejected ==
    \A r \in Invocations :
        (Decoded(r) /\ Body(r).kind # "Pod") =>
            /\ pc[r] \notin PastKindCheck \cup {"panicked"}
            /\ w[r].status # StatusOK
            /\ JSONDocs(w[r]) = {}
            /\ ~admissionResponse[r].built
            /\ pc[r] = "done" =>
                  /\ w[r].status = StatusBadRequest
                  /\ w[r].body =
                       <<[text |-> <<"expected request for kind Pod but got ", Body(r).kind>>,
                          json |-> Nil]>>

C3_Witness ==
    /\ pc[1] = "done" /\ Decoded(1) /\ Body(1).kind = "Deployment"
    /\ Body(1).object.shape = "pod" /\ PodDecodes(1)
    /\ Len(Body(1).object.containers) = 1
    /\ w[1].status = StatusBadRequest

\* C4: in the loop the totals are the exact sums of the cpu and memory entries
\* of the containers already visited (zero before the first, unchanged by a
\* container without the entry); after it they are the sums over all
\* containers, logged in canonical form: 500m + 500m is "1", 128Mi + 256Mi is
\* "384Mi", and no entries at all is "0".
C4_TotalsAreExactSums ==
    \A r \in Invocations :
        (pc[r] \in PastDecode \cup {"done"} /\ idx[r] >= 1) =>
            LET cs == pod[r].Containers
                n == idx[r] - 1
            IN  /\ n <= Len(cs)
                /\ ValueAt(totalCPU[r], -3) = SumAt(cs, ResourceCPU, n, -3)
                /\ ValueAt(totalMemory[r], 0) = SumAt(cs, ResourceMemory, n, 0)
                /\ pc[r] # "aggregate" =>
                      /\ n = Len(cs)
                      /\ logged[r] = <<QuantityString(totalMemory[r]),
                                       QuantityString(totalCPU[r])>>
                      /\ Body(r).object.containers = TwoContainers =>
                            logged[r] = << <<384, "Mi">>, <<1, "">> >>
                      /\ (\A i \in 1..Len(cs) : DOMAIN cs[i].Requests = {}) =>
                            logged[r] = << <<0, "">>, <<0, "">> >>

C4_Witness ==
    /\ pc[1] = "done"
    /\ Body(1).object.containers = TwoContainers
    /\ idx[1] = 3
    /\ logged[1] = << <<384, "Mi">>, <<1, "">> >>

\* C5: every AdmissionResponse built or written has Allowed = true, whatever
\* the totals and the containers; a Pod of one container without requests
\* logs totals 0 and 0 and is allowed.
C5_AlwaysAllowed ==
    \A r \in Invocations :
        /\ admissionResponse[r].built => admissionResponse[r].Allowed
        /\ \A d \in JSONDocs(w[r]) : d.response # Nil /\ d.response.allowed
        /\ (pc[r] = "done" /\ Decoded(r) /\ Body(r).kind = "Pod"
              /\ Body(r).object = PodObject(OneBareContainer)) =>
              /\ logged[r] = << <<0, "">>, <<0, "">> >>
              /\ \E d \in JSONDocs(w[r]) : d.response.allowed

C5_Witness ==
    /\ pc[1] = "done" /\ Decoded(1) /\ Body(1).kind = "Pod"
    /\ Body(1).object.containers = TwoContainers
    /\ totalMemory[1].value = 384 * 1024 * 1024
    /\ \E d \in JSONDocs(w[1]) : d.response.allowed

\* C6: every AdmissionReview document written carries the apiVersion and
\* kind of the request envelope it answers.
C6_SameAPIVersion ==
    \A r \in Invocations :
        \A d \in JSONDocs(w[r]) :
            /\ d.apiVersion = Body(r).apiVersion
            /\ d.kind = "AdmissionReview"

\* C7: under every interleaving, the locals of an invocation come from its own
\* call only, and a finished invocation has the status, body, decision, uid
\* and totals that its call gets when handled alone.
C7_Reentrant ==
    /\ \A r \in Invocations :
          /\ admissionReviewRequest[r] # Nil =>
                admissionReviewRequest[r] = parseAdmissionReview(Body(r)).review
          /\ admissionResponse[r].built => admissionResponse[r].UID = Body(r).uid
          /\ pc[r] \in Terminal => Outcome(r) = HandleAlone(call[r])
    /\ \A i \in 1..Len(history) : history[i].outcome = HandleAlone(history[i].call)

C7_Witness ==
    /\ pc[1] = "done" /\ pc[2] = "done"
    /\ Body(1).uid = "705ab4f5" /\ Body(2).uid = "9c1e77aa"
    /\ \E d \in JSONDocs(w[1]) : d.response.uid = "705ab4f5"
    /\ \E d \in JSONDocs(w[2]) : d.response.uid = "9c1e77aa"
    /\ logged[1] # logged[2]

\* the observable fields of an outcome: how it ended, the status, and the
\* decisions and uids written
Observable(o) ==
    [end |-> o.end, status |-> o.w.status,
     responses |-> {d.response : d \in JSONDocs(o.w)}]

\* C8: two finished calls with the same request (and the same writer
\* behaviour), whatever was handled before or between them, ended the same
\* way with the same status, decision and uid.
C8_Idempotent ==
    \A i, j \in 1..Len(history) :
        history[i].call = history[j].call =>
            Observable(history[i].outcome) = Observable(history[j].outcome)

C8_Witness ==
    /\ Len(history) = 3
    /\ history[1].call = history[3].call
    /\ history[2].call # history[1].call
    /\ history[1].outcome.w.status = StatusOK
    /\ history[2].outcome.w.status = StatusOK

DecisionEmitted(r) == w[r].status = StatusOK /\ JSONDocs(w[r]) # {}
ProtocolError(r) == w[r].status \in {StatusBadRequest, StatusInternalServerError}
                    /\ Texts(w[r]) # {}

\* C9: an invocation that has ended has either written an AdmissionReview
\* (decision emitted) or an error status with plain text (protocol error
\* returned), and not both an AdmissionReview and a plain text.
C9_TwoOutcomes ==
    \A r \in Invocations :
        pc[r] \in Terminal =>
            /\ DecisionEmitted(r) \/ ProtocolError(r)
            /\ ~(JSONDocs(w[r]) # {} /\ Texts(w[r]) # {})

\* C10: a Pod request whose object does not decode into a Pod is answered 400
\* with the decode error text; the loop is never entered, no totals are
\* logged and no AdmissionResponse is built or written.
C10_BadPodRejected ==
    \A r \in Invocations :
        (Decoded(r) /\ Body(r).kind = "Pod" /\ ~PodDecodes(r)) =>
            /\ pc[r] \notin PastDecode \cup {"panicked"}
            /\ logged[r] = NoTotals
            /\ ~admissionResponse[r].built
            /\ JSONDocs(w[r]) = {}
            /\ pc[r] = "done" =>
                  /\ w[r].status = StatusBadRequest
                  /\ w[r].body = <<[text |-> err[r], json |-> Nil]>>
                  /\ err[r] # NoError

C10_Witness ==
    /\ pc[1] = "done" /\ Decoded(1) /\ Body(1).kind = "Pod"
    /\ Body(1).object.shape = "pod"
    /\ Len(Body(1).object.containers) = 2
    /\ ~PodDecodes(1)
    /\ w[1].status = StatusBadRequest

====
